---------------------------- MODULE Spec2Model ----------------------------
(***************************************************************************)
(* A model of dags/app.py: the Goodreads "Best Books Ever" crawler         *)
(* (fetch_goodreads_books), its row parser (_parse_row, _to_int,           *)
(* _to_float) and the Postgres loader (insert_goodreads_into_postgres).    *)
(*                                                                         *)
(* Text is a sequence of one-character strings.  The token "P" stands for  *)
(* the phrase "people voted" (twelve characters, none of them a digit or   *)
(* a comma), in any letter case.                                           *)
(***************************************************************************)
EXTENDS Integers, Sequences, FiniteSets, TLC

VARIABLES
    num_books,   \* fetch_goodreads_books: the num_books argument
    max_pages,   \* fetch_goodreads_books: the max_pages argument
    page,        \* the loop's page counter
    books,       \* the list of kept rows
    seen,        \* the set of kept titles
    pc,          \* position in fetch_goodreads_books
    fetched,     \* what each session.get returned, in request order
    stop,        \* how the while loop was left
    log,         \* the lines printed by fetch_goodreads_books
    book_data,   \* the XCom value under key 'book_data'
    pushed,      \* whether XCom holds the key 'book_data'
    enableFallbackOnEmpty,
                 \* the configuration flag of the specification; the caller
                 \* can hand it over in **context only, and
                 \* fetch_goodreads_books never reads it
    lpc,         \* position in insert_goodreads_into_postgres
    conns,       \* the connections hook.get_conn() has opened
    txn,         \* the rows inserted in the open transaction
    table,       \* the committed rows of goodreads_books
    done,        \* the cur.execute calls that returned
    error,       \* the exception insert_goodreads_into_postgres raised
    arg,         \* the argument of a parsing helper under test
    ppc,         \* the parsing helper that was called
    ret          \* what it returned

crawlVars == <<num_books, max_pages, page, books, seen, pc, fetched, stop,
               log, book_data, pushed, enableFallbackOnEmpty>>

loadVars == <<lpc, conns, txn, table, done, error>>

parseVars == <<arg, ppc, ret>>

vars == <<crawlVars, loadVars, parseVars>>

----------------------------------------------------------------------------
(* Bounds of the model. *)

MaxBooks == 3

MaxPagesBound == 3

MaxSiteRows == 4

MaxBatch == 3

MaxLen == 4

MaxRowLen == 1

----------------------------------------------------------------------------
(* Values. *)

\* Python's None where a text is expected (no character is "None").
None == <<"None">>

\* Numbers as the parser produces them: None, an int, a float n / 10^e,
\* pandas' NaN, or a raised ValueError.
NoneNum == [k |-> "none", n |-> 0, e |-> 0]

NaN == [k |-> "nan", n |-> 0, e |-> 0]

ValueError == [k |-> "raise", n |-> 0, e |-> 0]

IntNum(n) == [k |-> "int", n |-> n, e |-> 0]

FloatNum(n, e) == [k |-> "float", n |-> n, e |-> e]

DigitSeq == <<"0", "1", "2", "3", "4", "5", "6", "7", "8", "9">>

Digits == {DigitSeq[i] : i \in 1..10}

DigitVal(c) == (CHOOSE i \in 1..10 : DigitSeq[i] = c) - 1

Min(a, b) == IF a <= b THEN a ELSE b

----------------------------------------------------------------------------
(* Regular expressions and Python conversions. *)

\* The longest prefix of s made of characters of set cs.
RECURSIVE Run(_, _)
Run(s, cs) ==
    IF s = <<>> \/ Head(s) \notin cs THEN <<>>
    ELSE <<Head(s)>> \o Run(Tail(s), cs)

\* s from its first character that belongs to cs (<<>> if there is none).
RECURSIVE From(_, _)
From(s, cs) ==
    IF s = <<>> \/ Head(s) \in cs THEN s ELSE From(Tail(s), cs)

Drop(s, n) == SubSeq(s, n + 1, Len(s))

\* _num_re.findall: the maximal runs of digits and commas, left to right.
RECURSIVE NumFindall(_)
NumFindall(s) ==
    LET t == From(s, Digits \cup {","})
        m == Run(t, Digits \cup {","})
    IN  IF t = <<>> THEN <<>> ELSE <<m>> \o NumFindall(Drop(t, Len(m)))

\* str.replace(",", "")
RECURSIVE StripCommas(_)
StripCommas(s) ==
    IF s = <<>> THEN <<>>
    ELSE IF Head(s) = "," THEN StripCommas(Tail(s))
    ELSE <<Head(s)>> \o StripCommas(Tail(s))

RECURSIVE DigitsValue(_)
DigitsValue(s) ==
    IF s = <<>> THEN 0
    ELSE 10 * DigitsValue(SubSeq(s, 1, Len(s) - 1)) + DigitVal(s[Len(s)])

\* int(text) for a text of digits: ValueError on the empty text.
PyInt(s) == IF s = <<>> THEN ValueError ELSE IntNum(DigitsValue(s))

RECURSIVE StripTrailingZeros(_)
StripTrailingZeros(s) ==
    IF s # <<>> /\ s[Len(s)] = "0"
    THEN StripTrailingZeros(SubSeq(s, 1, Len(s) - 1)) ELSE s

\* float(text) for a text "ddd" or "ddd.ddd": the value n / 10^e.
PyFloat(ip, fp) ==
    LET f == StripTrailingZeros(fp)
    IN  FloatNum(DigitsValue(ip \o f), Len(f))

\* _to_int
to_int(s) ==
    IF s = None \/ s = <<>> THEN NoneNum
    ELSE LET ms == NumFindall(s)
         IN  IF ms = <<>> THEN NoneNum ELSE PyInt(StripCommas(ms[1]))

\* _to_float: _float_re is \d+(?:\.\d+)?
to_float(s) ==
    IF s = None \/ s = <<>> THEN NoneNum
    ELSE LET t  == From(s, Digits)
             ip == Run(t, Digits)
             r  == Drop(t, Len(ip))
             fp == IF r # <<>> /\ Head(r) = "." THEN Run(Tail(r), Digits)
                   ELSE <<>>
         IN  IF t = <<>> THEN NoneNum ELSE PyFloat(ip, fp)

----------------------------------------------------------------------------
(* Markup.  A table row <tr> is [anchors, mini]: its <a> elements in        *)
(* document order and the text of its span.minirating (None: no such       *)
(* span).  An anchor is [cls, span, text]: cls tells which selector it     *)
(* matches ("bookTitle", "authorName", "score" for an onclick holding      *)
(* score_explanation, "other"), span is the text of its <span> child       *)
(* (None: no child) and text is the anchor's whole text.                   *)

Whitespace == {" "}

RECURSIVE LStrip(_)
LStrip(s) == IF s # <<>> /\ Head(s) \in Whitespace THEN LStrip(Tail(s)) ELSE s

RECURSIVE RStrip(_)
RStrip(s) ==
    IF s # <<>> /\ s[Len(s)] \in Whitespace
    THEN RStrip(SubSeq(s, 1, Len(s) - 1)) ELSE s

\* el.get_text(strip=True) of an element holding one text node
GetText(s) == RStrip(LStrip(s))

\* "people voted" in txt
HasPeopleVoted(s) == \E i \in 1..Len(s) : s[i] = "P"

\* tr.select_one(selector): the index of the first anchor of class cls
\* (with a <span> child if withSpan), 0 if there is none.
SelectOne(tr, cls, withSpan) ==
    LET hits == {i \in 1..Len(tr.anchors) :
                    /\ tr.anchors[i].cls = cls
                    /\ withSpan => tr.anchors[i].span # None}
    IN  IF hits = {} THEN 0 ELSE CHOOSE i \in hits : \A j \in hits : i <= j

\* The text of: tr.select_one("a.cls span") or tr.select_one("a.cls")
FirstText(tr, cls) ==
    LET sp == SelectOne(tr, cls, TRUE)
        an == SelectOne(tr, cls, FALSE)
    IN  IF sp # 0 THEN GetText(tr.anchors[sp].span)
        ELSE IF an # 0 THEN GetText(tr.anchors[an].text)
        ELSE None

\* [int(n.replace(",", "")) for n in _num_re.findall(mini_text)]
Nums(s) == [i \in 1..Len(NumFindall(s)) |-> PyInt(StripCommas(NumFindall(s)[i]))]

\* max(nums) if nums else None; ValueError if building nums raised
MaxNum(ns) ==
    IF \E i \in 1..Len(ns) : ns[i] = ValueError THEN ValueError
    ELSE IF ns = <<>> THEN NoneNum
    ELSE CHOOSE m \in {ns[i] : i \in 1..Len(ns)} :
            \A i \in 1..Len(ns) : ns[i].n <= m.n

\* The first anchor whose text holds "people voted" (0: none)
VotedAnchor(tr) ==
    LET hits == {i \in 1..Len(tr.anchors) :
                    HasPeopleVoted(GetText(tr.anchors[i].text))}
    IN  IF hits = {} THEN 0 ELSE CHOOSE i \in hits : \A j \in hits : i <= j

Raised == [err |-> TRUE, title |-> None, author |-> None,
           avg_rating |-> NoneNum, num_ratings |-> NoneNum,
           score |-> NoneNum, people_voted |-> NoneNum]

\* No call made yet.
NoResult == [Raised EXCEPT !.err = FALSE]

\* _parse_row: the dict it returns (err = FALSE), or Raised.
parse_row(tr) ==
    LET mini_text    == IF tr.mini = None THEN <<>> ELSE GetText(tr.mini)
        num_ratings  == MaxNum(Nums(mini_text))
        score_el     == SelectOne(tr, "score", FALSE)
        score        == IF score_el = 0 THEN NoneNum
                        ELSE to_int(GetText(tr.anchors[score_el].text))
        voted_el     == VotedAnchor(tr)
        people_voted == IF voted_el = 0 THEN NoneNum
                        ELSE to_int(GetText(tr.anchors[voted_el].text))
    IN  IF ValueError \in {num_ratings, score, people_voted} THEN Raised
        ELSE [err          |-> FALSE,
              title        |-> FirstText(tr, "bookTitle"),
              author       |-> FirstText(tr, "authorName"),
              avg_rating   |-> to_float(mini_text),
              num_ratings  |-> num_ratings,
              score        |-> score,
              people_voted |-> people_voted]

----------------------------------------------------------------------------
(* The source.  A page of the list is a sequence of row codes: "a", "b",   *)
(* "c" are rows with that title, "-" is a row whose title text is blank,   *)
(* "!" is a row whose minirating text holds a stray comma.  The row at     *)
(* place (p, i) carries an author text of its own.                         *)

Titles == {"a", "b", "c"}

RowCodes == Titles \cup {"-", "!"}

AuthorAt(p, i) == <<"w", DigitSeq[p + 1], DigitSeq[i + 1]>>

SiteRow(code, p, i) ==
    [anchors |->
        << [cls  |-> "bookTitle",
            span |-> IF code = "-" THEN <<" ">> ELSE <<code>>,
            text |-> IF code = "-" THEN <<" ">> ELSE <<code>>],
           [cls  |-> "authorName", span |-> AuthorAt(p, i),
            text |-> AuthorAt(p, i)] >>,
     mini |-> IF code = "!" THEN <<"4", " ", ",", " ", "9">> ELSE None]

\* The pages of at most n rows.
PageRows(n) == UNION {[1..k -> RowCodes] : k \in 0..n}

RECURSIVE RowCount(_)
RowCount(fs) ==
    IF fs = <<>> THEN 0 ELSE Len(Head(fs).rows) + RowCount(Tail(fs))

\* What session.get can do for one page: answer 200 with the page ("ok"),
\* answer another status ("http"), or raise ("exc").  rows is what the
\* source holds for that page, delivered or not; the pages requested so
\* far hold MaxSiteRows rows at most.
Outcomes(fs) ==
    [kind : {"ok", "http", "exc"}, rows : PageRows(MaxSiteRows - RowCount(fs))]

\* The dict _parse_row returns, without the model's err flag.
Dict(row) ==
    [title |-> row.title, author |-> row.author,
     avg_rating |-> row.avg_rating, num_ratings |-> row.num_ratings,
     score |-> row.score, people_voted |-> row.people_voted]

ParsedSiteRow ==
    [code \in RowCodes, p \in 1..MaxPagesBound, i \in 1..MaxSiteRows |->
        parse_row(SiteRow(code, p, i))]

\* Mutant: a title already kept is not skipped.
SkippedNoSeen(title, sn) == title = None \/ title = <<>>

\* not title or title in seen
Skipped(title, sn) == title = None \/ title = <<>> \/ title \in sn

\* bks with the record of row's title replaced by row.
ReplaceTitle(bks, row) ==
    [j \in 1..Len(bks) |->
        IF bks[j].title = row.title THEN Dict(row) ELSE bks[j]]

\* Mutant: a row whose title was kept before replaces the kept record.
RECURSIVE ScanRowsKeepLast(_, _, _, _, _, _, _)
ScanRowsKeepLast(rows, p, i, bks, sn, found, target) ==
    IF i > Len(rows)
    THEN [books |-> bks, seen |-> sn, found |-> found, raised |-> FALSE]
    ELSE LET row == ParsedSiteRow[rows[i], p, i]
         IN  IF row.err
             THEN [books |-> bks, seen |-> sn, found |-> found,
                   raised |-> TRUE]
             ELSE IF row.title = None \/ row.title = <<>>
             THEN ScanRowsKeepLast(rows, p, i + 1, bks, sn, found, target)
             ELSE IF row.title \in sn
             THEN ScanRowsKeepLast(rows, p, i + 1, ReplaceTitle(bks, row),
                                   sn, found, target)
             ELSE IF Len(bks) + 1 >= target
             THEN [books |-> Append(bks, Dict(row)),
                   seen |-> sn \cup {row.title}, found |-> found + 1,
                   raised |-> FALSE]
             ELSE ScanRowsKeepLast(rows, p, i + 1, Append(bks, Dict(row)),
                                   sn \cup {row.title}, found + 1, target)

\* Mutant: the scan of a page does not stop when the target is reached.
RECURSIVE ScanRowsNoBreak(_, _, _, _, _, _, _)
ScanRowsNoBreak(rows, p, i, bks, sn, found, target) ==
    IF i > Len(rows)
    THEN [books |-> bks, seen |-> sn, found |-> found, raised |-> FALSE]
    ELSE LET row == ParsedSiteRow[rows[i], p, i]
         IN  IF row.err
             THEN [books |-> bks, seen |-> sn, found |-> found,
                   raised |-> TRUE]
             ELSE IF Skipped(row.title, sn)
             THEN ScanRowsNoBreak(rows, p, i + 1, bks, sn, found, target)
             ELSE ScanRowsNoBreak(rows, p, i + 1, Append(bks, Dict(row)),
                                  sn \cup {row.title}, found + 1, target)

\* The for loop over the rows of page p, from row i on.
RECURSIVE ScanRows(_, _, _, _, _, _, _)
ScanRows(rows, p, i, bks, sn, found, target) ==
    IF i > Len(rows)
    THEN [books |-> bks, seen |-> sn, found |-> found, raised |-> FALSE]
    ELSE LET row == ParsedSiteRow[rows[i], p, i]
         IN  IF row.err
             THEN [books |-> bks, seen |-> sn, found |-> found,
                   raised |-> TRUE]
             ELSE IF Skipped(row.title, sn)
             THEN ScanRows(rows, p, i + 1, bks, sn, found, target)
             ELSE IF Len(bks) + 1 >= target
             THEN [books |-> Append(bks, Dict(row)),
                   seen |-> sn \cup {row.title}, found |-> found + 1,
                   raised |-> FALSE]
             ELSE ScanRows(rows, p, i + 1, Append(bks, Dict(row)),
                           sn \cup {row.title}, found + 1, target)

\* The fallback literal.
Mock ==
    << [title |-> <<"Mock Book A">>, author |-> <<"Jane Example">>,
        avg_rating |-> FloatNum(425, 2), num_ratings |-> IntNum(120345),
        score |-> IntNum(98000), people_voted |-> IntNum(45000)],
       [title |-> <<"Mock Book B">>, author |-> <<"John Example">>,
        avg_rating |-> FloatNum(41, 1), num_ratings |-> IntNum(80321),
        score |-> IntNum(65000), people_voted |-> IntNum(30000)] >>

\* Mutant: nothing is cut.
ClipNone(s, n) == s

\* books[:n] and df.head(n), for n >= 0
Clip(s, n) == SubSeq(s, 1, Min(n, Len(s)))

\* pd.DataFrame(books): a numeric column holding a None and a number
\* becomes float64, its None NaN; a column of None only stays as it is.
ColumnValue(bks, f, v) ==
    IF \A i \in 1..Len(bks) : bks[i][f].k = "none" THEN v
    ELSE IF \A i \in 1..Len(bks) : bks[i][f].k # "none" THEN v
    ELSE IF v.k = "none" THEN NaN
    ELSE FloatNum(v.n, v.e)

DataFrame(bks) ==
    [i \in 1..Len(bks) |->
        [title        |-> bks[i].title,
         author       |-> bks[i].author,
         avg_rating   |-> ColumnValue(bks, "avg_rating", bks[i].avg_rating),
         num_ratings  |-> ColumnValue(bks, "num_ratings", bks[i].num_ratings),
         score        |-> ColumnValue(bks, "score", bks[i].score),
         people_voted |-> ColumnValue(bks, "people_voted", bks[i].people_voted)]]

\* df.drop_duplicates(subset=["title"]): the first row of each title
RECURSIVE DropDuplicates(_)
DropDuplicates(df) ==
    IF df = <<>> THEN <<>>
    ELSE LET front == SubSeq(df, 1, Len(df) - 1)
             last  == df[Len(df)]
         IN  IF \E i \in 1..Len(front) : front[i].title = last.title
             THEN DropDuplicates(front)
             ELSE Append(DropDuplicates(front), last)

----------------------------------------------------------------------------
(* fetch_goodreads_books *)

\* A line of the log: its text and the numbers printed in it.
Line(text, nums) == [text |-> text, nums |-> nums]

\* Mutant: the loop tests the count of books only.
LoopConditionNoPageLimit == Len(books) < num_books

\* while len(books) < num_books and page <= max_pages
LoopCondition == Len(books) < num_books /\ page <= max_pages

\* Mutant: a non-200 answer does not end the loop.
FetchPageHttpContinue ==
    /\ pc = "loop"
    /\ LoopCondition
    /\ \E o \in Outcomes(fetched) :
        LET scan == ScanRows(o.rows, page, 1, books, seen, 0, num_books)
        IN  /\ fetched' = Append(fetched, [page |-> page, kind |-> o.kind,
                                           rows |-> o.rows])
            /\ CASE o.kind = "exc" ->
                      /\ log' = Append(log,
                                Line("ERROR exception during scraping", <<>>))
                      /\ pc' = "post"
                      /\ stop' = "exception"
                      /\ UNCHANGED <<books, seen, page>>
                 [] o.kind = "http" ->
                      /\ log' = Append(log,
                                Line("WARN http status, stopping", <<page>>))
                      /\ page' = page + 1
                      /\ UNCHANGED <<books, seen, pc, stop>>
                 [] o.kind = "ok" /\ scan.raised ->
                      /\ books' = scan.books
                      /\ seen' = scan.seen
                      /\ log' = Append(log,
                                Line("ERROR exception during scraping", <<>>))
                      /\ pc' = "post"
                      /\ stop' = "exception"
                      /\ UNCHANGED page
                 [] o.kind = "ok" /\ ~scan.raised /\ scan.found = 0 /\ page > 1 ->
                      /\ books' = scan.books
                      /\ seen' = scan.seen
                      /\ log' = log \o
                            << Line("INFO page parsed",
                                    <<page, scan.found, Len(scan.books)>>),
                               Line("INFO no new rows, stopping early", <<>>) >>
                      /\ pc' = "post"
                      /\ stop' = "empty_page"
                      /\ UNCHANGED page
                 [] OTHER ->
                      /\ books' = scan.books
                      /\ seen' = scan.seen
                      /\ log' = Append(log,
                                Line("INFO page parsed",
                                     <<page, scan.found, Len(scan.books)>>))
                      /\ page' = page + 1
                      /\ UNCHANGED <<pc, stop>>
    /\ UNCHANGED <<num_books, max_pages, book_data, pushed,
                   enableFallbackOnEmpty, loadVars, parseVars>>

\* Mutant: a page without a new row does not end the loop.
FetchPageNoEarlyStop ==
    /\ pc = "loop"
    /\ LoopCondition
    /\ \E o \in Outcomes(fetched) :
        LET scan == ScanRows(o.rows, page, 1, books, seen, 0, num_books)
        IN  /\ fetched' = Append(fetched, [page |-> page, kind |-> o.kind,
                                           rows |-> o.rows])
            /\ CASE o.kind = "exc" ->
                      /\ log' = Append(log,
                                Line("ERROR exception during scraping", <<>>))
                      /\ pc' = "post"
                      /\ stop' = "exception"
                      /\ UNCHANGED <<books, seen, page>>
                 [] o.kind = "http" ->
                      /\ log' = Append(log,
                                Line("WARN http status, stopping", <<page>>))
                      /\ pc' = "post"
                      /\ stop' = "http"
                      /\ UNCHANGED <<books, seen, page>>
                 [] o.kind = "ok" /\ scan.raised ->
                      /\ books' = scan.books
                      /\ seen' = scan.seen
                      /\ log' = Append(log,
                                Line("ERROR exception during scraping", <<>>))
                      /\ pc' = "post"
                      /\ stop' = "exception"
                      /\ UNCHANGED page
                 [] OTHER ->
                      /\ books' = scan.books
                      /\ seen' = scan.seen
                      /\ log' = Append(log,
                                Line("INFO page parsed",
                                     <<page, scan.found, Len(scan.books)>>))
                      /\ page' = page + 1
                      /\ UNCHANGED <<pc, stop>>
    /\ UNCHANGED <<num_books, max_pages, book_data, pushed,
                   enableFallbackOnEmpty, loadVars, parseVars>>

\* Mutant: a first page without a new row ends the loop too.
FetchPageStopOnFirstEmpty ==
    /\ pc = "loop"
    /\ LoopCondition
    /\ \E o \in Outcomes(fetched) :
        LET scan == ScanRows(o.rows, page, 1, books, seen, 0, num_books)
        IN  /\ fetched' = Append(fetched, [page |-> page, kind |-> o.kind,
                                           rows |-> o.rows])
            /\ CASE o.kind = "exc" ->
                      /\ log' = Append(log,
                                Line("ERROR exception during scraping", <<>>))
                      /\ pc' = "post"
                      /\ stop' = "exception"
                      /\ UNCHANGED <<books, seen, page>>
                 [] o.kind = "http" ->
                      /\ log' = Append(log,
                                Line("WARN http status, stopping", <<page>>))
                      /\ pc' = "post"
                      /\ stop' = "http"
                      /\ UNCHANGED <<books, seen, page>>
                 [] o.kind = "ok" /\ scan.raised ->
                      /\ books' = scan.books
                      /\ seen' = scan.seen
                      /\ log' = Append(log,
                                Line("ERROR exception during scraping", <<>>))
                      /\ pc' = "post"
                      /\ stop' = "exception"
                      /\ UNCHANGED page
                 [] o.kind = "ok" /\ ~scan.raised /\ scan.found = 0 ->
                      /\ books' = scan.books
                      /\ seen' = scan.seen
                      /\ log' = log \o
                            << Line("INFO page parsed",
                                    <<page, scan.found, Len(scan.books)>>),
                               Line("INFO no new rows, stopping early", <<>>) >>
                      /\ pc' = "post"
                      /\ stop' = "empty_page"
                      /\ UNCHANGED page
                 [] OTHER ->
                      /\ books' = scan.books
                      /\ seen' = scan.seen
                      /\ log' = Append(log,
                                Line("INFO page parsed",
                                     <<page, scan.found, Len(scan.books)>>))
                      /\ page' = page + 1
                      /\ UNCHANGED <<pc, stop>>
    /\ UNCHANGED <<num_books, max_pages, book_data, pushed,
                   enableFallbackOnEmpty, loadVars, parseVars>>

\* Mutant: an exception in the scan of a page loses the records kept
\* from that page.
FetchPageExceptionDropsPage ==
    /\ pc = "loop"
    /\ LoopCondition
    /\ \E o \in Outcomes(fetched) :
        LET scan == ScanRows(o.rows, page, 1, books, seen, 0, num_books)
        IN  /\ fetched' = Append(fetched, [page |-> page, kind |-> o.kind,
                                           rows |-> o.rows])
            /\ CASE o.kind = "exc" ->
                      /\ log' = Append(log,
                                Line("ERROR exception during scraping", <<>>))
                      /\ pc' = "post"
                      /\ stop' = "exception"
                      /\ UNCHANGED <<books, seen, page>>
                 [] o.kind = "http" ->
                      /\ log' = Append(log,
                                Line("WARN http status, stopping", <<page>>))
                      /\ pc' = "post"
                      /\ stop' = "http"
                      /\ UNCHANGED <<books, seen, page>>
                 [] o.kind = "ok" /\ scan.raised ->
                      /\ log' = Append(log,
                                Line("ERROR exception during scraping", <<>>))
                      /\ pc' = "post"
                      /\ stop' = "exception"
                      /\ UNCHANGED <<books, seen, page>>
                 [] o.kind = "ok" /\ ~scan.raised /\ scan.found = 0 /\ page > 1 ->
                      /\ books' = scan.books
                      /\ seen' = scan.seen
                      /\ log' = log \o
                            << Line("INFO page parsed",
                                    <<page, scan.found, Len(scan.books)>>),
                               Line("INFO no new rows, stopping early", <<>>) >>
                      /\ pc' = "post"
                      /\ stop' = "empty_page"
                      /\ UNCHANGED page
                 [] OTHER ->
                      /\ books' = scan.books
                      /\ seen' = scan.seen
                      /\ log' = Append(log,
                                Line("INFO page parsed",
                                     <<page, scan.found, Len(scan.books)>>))
                      /\ page' = page + 1
                      /\ UNCHANGED <<pc, stop>>
    /\ UNCHANGED <<num_books, max_pages, book_data, pushed,
                   enableFallbackOnEmpty, loadVars, parseVars>>

\* One pass of the while body: the request of page `page` and what
\* follows it, to the break, the raise or page += 1.
FetchPage ==
    /\ pc = "loop"
    /\ LoopCondition
    /\ \E o \in Outcomes(fetched) :
        LET scan == ScanRows(o.rows, page, 1, books, seen, 0, num_books)
        IN  /\ fetched' = Append(fetched, [page |-> page, kind |-> o.kind,
                                           rows |-> o.rows])
            /\ CASE o.kind = "exc" ->
                      /\ log' = Append(log,
                                Line("ERROR exception during scraping", <<>>))
                      /\ pc' = "post"
                      /\ stop' = "exception"
                      /\ UNCHANGED <<books, seen, page>>
                 [] o.kind = "http" ->
                      /\ log' = Append(log,
                                Line("WARN http status, stopping", <<page>>))
                      /\ pc' = "post"
                      /\ stop' = "http"
                      /\ UNCHANGED <<books, seen, page>>
                 [] o.kind = "ok" /\ scan.raised ->
                      /\ books' = scan.books
                      /\ seen' = scan.seen
                      /\ log' = Append(log,
                                Line("ERROR exception during scraping", <<>>))
                      /\ pc' = "post"
                      /\ stop' = "exception"
                      /\ UNCHANGED page
                 [] o.kind = "ok" /\ ~scan.raised /\ scan.found = 0 /\ page > 1 ->
                      /\ books' = scan.books
                      /\ seen' = scan.seen
                      /\ log' = log \o
                            << Line("INFO page parsed",
                                    <<page, scan.found, Len(scan.books)>>),
                               Line("INFO no new rows, stopping early", <<>>) >>
                      /\ pc' = "post"
                      /\ stop' = "empty_page"
                      /\ UNCHANGED page
                 [] OTHER ->
                      /\ books' = scan.books
                      /\ seen' = scan.seen
                      /\ log' = Append(log,
                                Line("INFO page parsed",
                                     <<page, scan.found, Len(scan.books)>>))
                      /\ page' = page + 1
                      /\ UNCHANGED <<pc, stop>>
    /\ UNCHANGED <<num_books, max_pages, book_data, pushed,
                   enableFallbackOnEmpty, loadVars, parseVars>>

\* The while condition is false: the loop ends.
LoopExit ==
    /\ pc = "loop"
    /\ ~LoopCondition
    /\ pc' = "post"
    /\ stop' = IF Len(books) >= num_books THEN "target" ELSE "page_limit"
    /\ UNCHANGED <<num_books, max_pages, page, books, seen, fetched, log,
                   book_data, pushed, enableFallbackOnEmpty, loadVars,
                   parseVars>>

\* Mutant: no fallback.
NoFallback(bks, n) == bks

\* Mutant: the fallback records replace whatever was collected.
WithFallbackAlways(bks, n) == Clip(Mock, n)

\* if not books: books = [...][:num_books]
WithFallback(bks, n) == IF bks = <<>> THEN Clip(Mock, n) ELSE bks

\* Mutant: the clip is one short.
FinalRecordsShort(bks, n) == Clip(DropDuplicates(DataFrame(bks)), n - 1)

\* pd.DataFrame(books).drop_duplicates(subset=["title"]).head(num_books)
FinalRecords(bks, n) == Clip(DropDuplicates(DataFrame(bks)), n)

\* After the loop: the fallback, the de-duplication, the clip, the push.
Finish ==
    /\ pc = "post"
    /\ books' = WithFallback(books, num_books)
    /\ book_data' = FinalRecords(books', num_books)
    /\ log' = log \o (IF books = <<>>
                      THEN <<Line("WARN using mock fallback data", <<>>)>>
                      ELSE <<>>)
                 \o <<Line("INFO xcom pushed", <<Len(book_data')>>)>>
    /\ pushed' = TRUE
    /\ pc' = "done"
    /\ UNCHANGED <<num_books, max_pages, page, seen, fetched, stop,
                   enableFallbackOnEmpty, loadVars, parseVars>>

----------------------------------------------------------------------------
(* insert_goodreads_into_postgres.  The store shows other sessions the     *)
(* committed rows only (table); the rows of the open transaction (txn)     *)
(* are added to them by conn.commit() and dropped by the rollback that     *)
(* leaving `with hook.get_conn() as conn` on an exception performs.  The   *)
(* serial id column is left out.                                           *)

\* (b.get("title"), ..., b.get("people_voted"))
RowOf(b) ==
    [title |-> b.title, author |-> b.author, avg_rating |-> b.avg_rating,
     num_ratings |-> b.num_ratings, score |-> b.score,
     people_voted |-> b.people_voted]

\* if not book_data
NoBookData == ~pushed \/ book_data = <<>>

\* Mutant: book_data is not checked.
LoadStartNoCheck ==
    /\ lpc = "start"
    /\ lpc' = "insert"
    /\ conns' = conns + 1
    /\ UNCHANGED <<error, txn, table, done, crawlVars, parseVars>>

\* xcom_pull, the check of book_data, hook.get_conn()
LoadStart ==
    /\ lpc = "start"
    /\ IF NoBookData
       THEN /\ lpc' = "failed"
            /\ error' = "ValueError"
            /\ UNCHANGED conns
       ELSE /\ lpc' = "insert"
            /\ conns' = conns + 1
            /\ UNCHANGED error
    /\ UNCHANGED <<txn, table, done, crawlVars, parseVars>>

\* Mutant: the connection commits every statement at once.
ExecuteAutocommit ==
    /\ lpc = "insert"
    /\ done < Len(book_data)
    /\ LET b == book_data[done + 1]
       IN  IF b.title = None
           THEN /\ lpc' = "failed"
                /\ error' = "StoreError"
                /\ UNCHANGED <<done, table>>
           ELSE /\ table' = Append(table, RowOf(b))
                /\ done' = done + 1
                /\ UNCHANGED <<lpc, error>>
    /\ UNCHANGED <<conns, txn, crawlVars, parseVars>>

\* Mutant: the row is put in front of the rows inserted before it.
ExecuteReversed ==
    /\ lpc = "insert"
    /\ done < Len(book_data)
    /\ LET b == book_data[done + 1]
       IN  IF b.title = None
           THEN /\ txn' = <<>>
                /\ lpc' = "failed"
                /\ error' = "StoreError"
                /\ UNCHANGED done
           ELSE /\ txn' = <<RowOf(b)>> \o txn
                /\ done' = done + 1
                /\ UNCHANGED <<lpc, error>>
    /\ UNCHANGED <<conns, table, crawlVars, parseVars>>

\* One cur.execute(insert_sql, ...): the row joins the open transaction;
\* a NULL title violates the column's NOT NULL and raises.
Execute ==
    /\ lpc = "insert"
    /\ done < Len(book_data)
    /\ LET b == book_data[done + 1]
       IN  IF b.title = None
           THEN /\ txn' = <<>>
                /\ lpc' = "failed"
                /\ error' = "StoreError"
                /\ UNCHANGED done
           ELSE /\ txn' = Append(txn, RowOf(b))
                /\ done' = done + 1
                /\ UNCHANGED <<lpc, error>>
    /\ UNCHANGED <<conns, table, crawlVars, parseVars>>

\* A statement or the commit fails (the connection is lost, the server
\* refuses): the exception leaves the with block, which rolls back.
Fault ==
    /\ lpc = "insert"
    /\ txn' = <<>>
    /\ lpc' = "failed"
    /\ error' = "StoreError"
    /\ UNCHANGED <<conns, table, done, crawlVars, parseVars>>

\* conn.commit() after the last execute
Commit ==
    /\ lpc = "insert"
    /\ done = Len(book_data)
    /\ table' = table \o txn
    /\ txn' = <<>>
    /\ lpc' = "done"
    /\ UNCHANGED <<conns, done, error, crawlVars, parseVars>>

\* create_table_task, which the DAG runs between fetch_task and
\* insert_task: DROP TABLE IF EXISTS goodreads_books, then CREATE TABLE
\* IF NOT EXISTS goodreads_books.  The table it leaves is empty.
CreateTable ==
    /\ pc = "done"
    /\ lpc = "idle"
    /\ table' = <<>>
    /\ lpc' = "start"
    /\ UNCHANGED <<conns, txn, done, error, crawlVars, parseVars>>

\* Records the loader can be handed: two titled ones and one without title.
LoadRecord(title) ==
    [title |-> title, author |-> None, avg_rating |-> NoneNum,
     num_ratings |-> NoneNum, score |-> NoneNum, people_voted |-> NoneNum]

LoadRecords == {LoadRecord(<<"a">>), LoadRecord(<<"b">>), LoadRecord(None)}

\* A row an earlier run committed.
PriorRow == RowOf(LoadRecord(<<"old">>))

----------------------------------------------------------------------------
(* The parsing helpers called on their own. *)

Alphabet == {"0", "1", "2", ",", ".", "x"}

Strings == UNION {[1..n -> Alphabet] : n \in 0..MaxLen}

RowTexts == UNION {[1..n -> {"1", ",", "x"}] : n \in 1..MaxRowLen}

\* Two texts of the list's pages, as the minirating and the votes anchor
\* show them ("-" stands for the dash between the two numbers).
Examples ==
    { <<"3", "0", ",", "2", "1", "0", " ", "p", "e", "o", "p", "l", "e",
        " ", "v", "o", "t", "e", "d">>,
      <<"4", ".", "2", "8", " ", "a", "v", "g", " ", "r", "a", "t", "i",
        "n", "g", " ", "-", " ", "9", ",", "1", "1", "7", ",", "7", "7",
        "3", " ", "r", "a", "t", "i", "n", "g", "s">> }

NoAnchor == [cls |-> "none", span |-> None, text |-> None]

TitleAnchors ==
    {NoAnchor,
     [cls |-> "bookTitle", span |-> <<"t">>, text |-> <<"t">>],
     [cls |-> "bookTitle", span |-> None, text |-> <<"t">>],
     [cls |-> "bookTitle", span |-> <<" ">>, text |-> <<" ">>]}

AuthorAnchors ==
    {NoAnchor, [cls |-> "authorName", span |-> <<"u">>, text |-> <<"u">>]}

ScoreAnchors ==
    {NoAnchor} \cup {[cls |-> "score", span |-> None, text |-> x] :
                        x \in RowTexts}

VotedAnchors ==
    {NoAnchor} \cup {[cls |-> "other", span |-> None, text |-> x \o <<" ", "P">>] :
                        x \in RowTexts \cup {<<>>}}

Present(as) == SelectSeq(as, LAMBDA a : a # NoAnchor)

\* The rows: every subset of the five elements, every text in those present.
Rows ==
    {[anchors |-> Present(<<ta, aa, sa, va>>), mini |-> m] :
        ta \in TitleAnchors, aa \in AuthorAnchors, sa \in ScoreAnchors,
        va \in VotedAnchors, m \in {None} \cup RowTexts}

NoRow == [anchors |-> <<>>, mini |-> None]

CallToInt ==
    /\ ppc = "idle"
    /\ ppc' = "to_int"
    /\ ret' = [ret EXCEPT !.num = to_int(arg.s)]
    /\ UNCHANGED <<arg, crawlVars, loadVars>>

CallToFloat ==
    /\ ppc = "idle"
    /\ ppc' = "to_float"
    /\ ret' = [ret EXCEPT !.num = to_float(arg.s)]
    /\ UNCHANGED <<arg, crawlVars, loadVars>>

CallParseRow ==
    /\ ppc = "idle"
    /\ ppc' = "parse_row"
    /\ ret' = [ret EXCEPT !.row = parse_row(arg.tr)]
    /\ UNCHANGED <<arg, crawlVars, loadVars>>

----------------------------------------------------------------------------
(* Specifications. *)

\* The loader and the parsing helpers at rest.
LoadIdle ==
    /\ lpc = "idle"
    /\ conns = 0
    /\ txn = <<>>
    /\ table = <<>>
    /\ done = 0
    /\ error = "none"

ParseIdle ==
    /\ arg = [s |-> None, tr |-> NoRow]
    /\ ppc = "none"
    /\ ret = [num |-> NoneNum, row |-> NoResult]

Init ==
    /\ num_books \in 1..MaxBooks
    /\ max_pages \in 1..MaxPagesBound
    /\ enableFallbackOnEmpty \in BOOLEAN
    /\ page = 1
    /\ books = <<>>
    /\ seen = {}
    /\ pc = "loop"
    /\ fetched = <<>>
    /\ stop = "running"
    /\ log = <<>>
    /\ book_data = <<>>
    /\ pushed = FALSE
    /\ LoadIdle
    /\ ParseIdle

Next == FetchPage \/ LoopExit \/ Finish

\* One run of fetch_goodreads_books.
Spec == Init /\ [][Next]_vars

CrawlIdle ==
    /\ num_books = 1
    /\ max_pages = 1
    /\ enableFallbackOnEmpty = TRUE
    /\ page = 1
    /\ books = <<>>
    /\ seen = {}
    /\ pc = "none"
    /\ fetched = <<>>
    /\ stop = "running"
    /\ log = <<>>

InitLoad ==
    /\ CrawlIdle
    /\ pushed \in BOOLEAN
    /\ book_data \in UNION {[1..n -> LoadRecords] : n \in 0..MaxBatch}
    /\ ~pushed => book_data = <<>>
    /\ lpc = "start"
    /\ conns = 0
    /\ txn = <<>>
    /\ table \in {<<>>, <<PriorRow>>}
    /\ done = 0
    /\ error = "none"
    /\ ParseIdle

NextLoad == LoadStart \/ Execute \/ Fault \/ Commit

\* One call of insert_goodreads_into_postgres.
SpecLoad == InitLoad /\ [][NextLoad]_vars

\* NUM_BOOKS and MAX_PAGES of the configuration, which the DAG hands to
\* fetch_goodreads_books (1000 and 100 in the source).
NUM_BOOKS == MaxBooks

MAX_PAGES == MaxPagesBound

\* A run of the DAG starts with the table as earlier runs left it.
InitPipeline ==
    /\ num_books = NUM_BOOKS
    /\ max_pages = MAX_PAGES
    /\ enableFallbackOnEmpty = TRUE
    /\ page = 1
    /\ books = <<>>
    /\ seen = {}
    /\ pc = "loop"
    /\ fetched = <<>>
    /\ stop = "running"
    /\ log = <<>>
    /\ book_data = <<>>
    /\ pushed = FALSE
    /\ lpc = "idle"
    /\ conns = 0
    /\ txn = <<>>
    /\ table \in {<<>>, <<PriorRow>>}
    /\ done = 0
    /\ error = "none"
    /\ ParseIdle

\* fetch_task >> create_table_task >> insert_task
NextPipeline ==
    \/ FetchPage
    \/ LoopExit
    \/ Finish
    \/ CreateTable
    \/ LoadStart
    \/ Execute
    \/ Fault
    \/ Commit

\* One run of the DAG.
SpecPipeline == InitPipeline /\ [][NextPipeline]_vars

InitParse ==
    /\ CrawlIdle
    /\ book_data = <<>>
    /\ pushed = FALSE
    /\ LoadIdle
    /\ arg \in {[s |-> x, tr |-> NoRow] : x \in Strings \cup Examples \cup {None}}
              \cup {[s |-> None, tr |-> r] : r \in Rows}
    /\ ppc = "idle"
    /\ ret = [num |-> NoneNum, row |-> NoResult]

NextParse == CallToInt \/ CallToFloat \/ CallParseRow

\* One call of _to_int, _to_float or _parse_row.
SpecParse == InitParse /\ [][NextParse]_vars

----------------------------------------------------------------------------
(* What the claims speak of. *)

\* The places <<i, j>> of the rows the requests delivered: row j of the
\* i-th request, which answered 200.
Delivered ==
    {<<i, j>> \in (1..Len(fetched)) \X (1..MaxSiteRows) :
        fetched[i].kind = "ok" /\ j <= Len(fetched[i].rows)}

\* The delivered rows that carry title t.
RowsOf(t) == {x \in Delivered : fetched[x[1]].rows[x[2]] = t}

\* The first of a non-empty set of places, in page-then-row order.
FirstOf(xs) ==
    CHOOSE x \in xs :
        \A y \in xs : x[1] < y[1] \/ (x[1] = y[1] /\ x[2] <= y[2])

\* The titles the pages of the source hold, delivered or not.
SourceTitles ==
    {t \in Titles :
        \E i \in 1..Len(fetched) : \E j \in 1..Len(fetched[i].rows) :
            fetched[i].rows[j] = t}

\* No row of the source makes _parse_row raise.
NoBadRow ==
    \A i \in 1..Len(fetched) : \A j \in 1..Len(fetched[i].rows) :
        fetched[i].rows[j] # "!"

\* The records of the final set with title t.
Finals(t) == {n \in 1..Len(book_data) : book_data[n].title = <<t>>}

\* Every request answered 200 with a page of no titled row.
EmptySource ==
    /\ fetched # <<>>
    /\ \A i \in 1..Len(fetched) :
        /\ fetched[i].kind = "ok"
        /\ \A j \in 1..Len(fetched[i].rows) : fetched[i].rows[j] = "-"

TitlesOf(recs) == [n \in 1..Len(recs) |-> recs[n].title]

\* The rows of the table that are not an earlier run's.
BatchRows(tbl) == SelectSeq(tbl, LAMBDA r : r # PriorRow)

----------------------------------------------------------------------------
(* Claims. *)

\* Twice the requests made, plus the steps made after the loop.
C1_Rank ==
    2 * Len(fetched)
    + (IF pc = "loop" THEN 0 ELSE IF pc = "post" THEN 1 ELSE 2)

\* C1: the crawl loop makes at most max_pages requests, request i asks for
\* page i <= max_pages, and the function ends: every step adds a request
\* or moves on towards "done", so at most 2 * max_pages + 2 steps are made.
C1_AtMostMaxPagesRequests ==
    /\ [](/\ Len(fetched) <= max_pages
          /\ \A i \in 1..Len(fetched) : fetched[i].page = i /\ i <= max_pages
          /\ pc = "loop" => page = Len(fetched) + 1
          /\ C1_Rank <= 2 * max_pages + 2)
    /\ [][C1_Rank' > C1_Rank]_vars

C1_Witness ==
    /\ pc = "done"
    /\ stop = "page_limit"
    /\ max_pages >= 2
    /\ Len(fetched) = max_pages

\* C2: the value pushed as 'book_data' holds at most num_books records.
C2_AtMostTarget == pushed => Len(book_data) <= num_books

C2_Witness ==
    /\ pushed
    /\ num_books = 1
    /\ books = <<Mock[1]>>
    /\ Len(book_data) = 1

\* C3 as stated: whenever the pages of the source hold at least num_books
\* distinct titles, the final set has exactly num_books records (checked
\* here for sources none of whose rows raises).
C3_Original ==
    (pc = "done" /\ NoBadRow /\ Cardinality(SourceTitles) >= num_books)
        => Len(book_data) = num_books

\* C3 amended: whenever the pages of the source hold at least num_books
\* distinct titles and the loop is not cut short (by a failed request, an
\* exception or a page after the first without a new title), the final set
\* has exactly num_books records.
C3_Amended ==
    (/\ pc = "done"
     /\ stop \in {"target", "page_limit"}
     /\ Cardinality(SourceTitles) >= num_books)
        => Len(book_data) = num_books

C3_Witness ==
    /\ pc = "done"
    /\ stop = "target"
    /\ num_books = 3
    /\ Len(fetched) = 3
    /\ Cardinality(SourceTitles) >= num_books
    /\ Len(book_data) = 3

\* C4 as stated: a title that two or more delivered rows carry has exactly
\* one record in the final set, that of the first such row (checked here
\* for crawls in which nothing raises).
C4_Original ==
    (pc = "done" /\ stop # "exception")
        => \A t \in Titles :
            Cardinality(RowsOf(t)) >= 2
                => /\ Cardinality(Finals(t)) = 1
                   /\ \A n \in Finals(t) :
                        book_data[n].author =
                            AuthorAt(FirstOf(RowsOf(t))[1], FirstOf(RowsOf(t))[2])

\* C4 amended: a title that two or more delivered rows carry has exactly
\* one record in the final set, that of the first such row, if the crawl
\* kept the title (it is in seen), and no record otherwise.
C4_Amended ==
    pc = "done"
        => \A t \in Titles :
            Cardinality(RowsOf(t)) >= 2
                => /\ Cardinality(Finals(t)) = (IF <<t>> \in seen THEN 1 ELSE 0)
                   /\ \A n \in Finals(t) :
                        book_data[n].author =
                            AuthorAt(FirstOf(RowsOf(t))[1], FirstOf(RowsOf(t))[2])

C4_Witness ==
    /\ pc = "done"
    /\ \E t \in Titles :
        /\ \E x, y \in RowsOf(t) : x[1] = 1 /\ y[1] = 2
        /\ \E x \in RowsOf(t) : x[1] = 1 /\ x[2] = 2
        /\ Cardinality(Finals(t)) = 1
        /\ Len(book_data) = 3

\* C5: when every request answers 200 with a page of no titled row (the
\* fallback being enabled), the function ends normally, the pushed set is
\* the non-empty fallback set and the log holds the fallback warning.
C5_FallbackOnEmpty ==
    (EmptySource /\ enableFallbackOnEmpty)
        => /\ pc \in {"loop", "post", "done"}
           /\ pc = "done"
                => /\ pushed
                   /\ book_data # <<>>
                   /\ book_data = SubSeq(Mock, 1, Len(book_data))
                   /\ Len(book_data) = Min(num_books, Len(Mock))
                   /\ \E n \in 1..Len(log) :
                        log[n].text = "WARN using mock fallback data"

C5_Witness ==
    /\ pc = "done"
    /\ EmptySource
    /\ enableFallbackOnEmpty
    /\ Len(fetched) = 2
    /\ fetched[1].rows # <<>>
    /\ Len(book_data) = 2

\* C6 as stated: when every request answers 200 with a page of no titled
\* row and the fallback is disabled, the function pushes no record set.
C6_HardFailureWhenDisabled ==
    (pc = "done" /\ EmptySource /\ ~enableFallbackOnEmpty) => ~pushed

\* The source of the scenario of C7: page 1 holds two rows of distinct
\* titles, page 2 a row of a new title and a row of page 1's first title.
C7_Scenario ==
    /\ num_books = 3
    /\ max_pages = 2
    /\ fetched # <<>>
    /\ fetched[1].kind = "ok"
    /\ Len(fetched[1].rows) = 2
    /\ fetched[1].rows[1] \in Titles
    /\ fetched[1].rows[2] \in Titles \ {fetched[1].rows[1]}
    /\ Len(fetched) >= 2
        => /\ fetched[2].kind = "ok"
           /\ Len(fetched[2].rows) = 2
           /\ \E n \in 1..2 :
                /\ fetched[2].rows[n] = fetched[1].rows[1]
                /\ fetched[2].rows[3 - n] \in
                      Titles \ {fetched[1].rows[1], fetched[1].rows[2]}

\* The title of the new row of page 2.
C7_NewTitle ==
    CHOOSE t \in Titles :
        t \notin {fetched[1].rows[1], fetched[1].rows[2]}
        /\ \E n \in 1..2 : fetched[2].rows[n] = t

\* C7: in the scenario the loop runs twice (stop is "running" as long as
\* it does), is left because the target is reached, and the final set is
\* page 1's two rows, then page 2's new row.
C7_EndToEnd ==
    C7_Scenario
        => /\ pc = "loop" => stop = "running"
           /\ pc \in {"post", "done"}
                => /\ stop = "target"
                   /\ Len(fetched) = 2
                   /\ fetched[1].page = 1 /\ fetched[2].page = 2
           /\ pc = "done"
                => /\ Len(book_data) = 3
                   /\ TitlesOf(book_data) =
                        << <<fetched[1].rows[1]>>, <<fetched[1].rows[2]>>,
                           <<C7_NewTitle>> >>
                   /\ book_data[1].author = AuthorAt(1, 1)
                   /\ book_data[2].author = AuthorAt(1, 2)

C7_Witness ==
    /\ C7_Scenario
    /\ pc = "done"
    /\ fetched[2].rows[1] = fetched[1].rows[1]
    /\ Len(book_data) = 3

\* C8: the rows of the batch are invisible in the table until the commit,
\* also after a fault that follows some of the inserts, and at the commit
\* they all are in it, in the order of book_data.
C8_AtomicBatch ==
    /\ lpc \in {"start", "insert", "failed"} => BatchRows(table) = <<>>
    /\ lpc = "done"
        => BatchRows(table) = [n \in 1..Len(book_data) |-> RowOf(book_data[n])]

C8_Witness ==
    /\ lpc = "failed"
    /\ error = "StoreError"
    /\ done = 2
    /\ Len(book_data) = 3
    /\ book_data[3].title # None
    /\ table = <<PriorRow>>

\* C9: called with no or empty book_data, the loader ends in ValueError
\* with no connection opened, no row inserted and the table as it was.
C9_EmptyInputFails ==
    (NoBookData /\ lpc # "start")
        => /\ lpc = "failed"
           /\ error = "ValueError"
           /\ conns = 0
           /\ txn = <<>>
           /\ BatchRows(table) = <<>>

C9_Witness ==
    /\ lpc = "failed"
    /\ error = "ValueError"
    /\ pushed
    /\ book_data = <<>>
    /\ table = <<PriorRow>>

\* C10 as stated: _parse_row never raises, whatever elements the row
\* lacks and whatever the texts of its elements are.
C10_NeverRaises == ppc = "parse_row" => ~ret.row.err

\* The place <<p, i>> of the row a record of the crawl was parsed from:
\* the author text of the row, AuthorAt(p, i), spells it.
PlaceOf(rec) == <<DigitVal(rec.author[2]), DigitVal(rec.author[3])>>

\* Place x comes before place y in page-then-row order.
Before(x, y) == x[1] < y[1] \/ (x[1] = y[1] /\ x[2] < y[2])

\* C11: in a run of the DAG the final set of a crawl that kept records
\* holds them in the order in which they were kept, which is the
\* page-then-row order of the rows they were parsed from, and the loader
\* inserts the rows in the order of the sequence it is handed: the open
\* transaction is the rows of the first `done` records, the committed
\* batch the rows of all records, in that order.
C11_OrderPreserved ==
    /\ (pc = "done" /\ seen # {})
        => /\ TitlesOf(book_data) = TitlesOf(books)
           /\ \A n \in 1..Len(book_data) :
                LET x == PlaceOf(book_data[n])
                IN  /\ x[1] <= Len(fetched)
                    /\ fetched[x[1]].kind = "ok"
                    /\ x[2] <= Len(fetched[x[1]].rows)
                    /\ book_data[n].title = <<fetched[x[1]].rows[x[2]]>>
           /\ \A n, m \in 1..Len(book_data) :
                n < m <=> Before(PlaceOf(book_data[n]), PlaceOf(book_data[m]))
    /\ lpc = "insert"
        => /\ done <= Len(book_data)
           /\ txn = [n \in 1..done |-> RowOf(book_data[n])]
    /\ lpc = "done"
        => BatchRows(table) = [n \in 1..Len(book_data) |-> RowOf(book_data[n])]

C11_Witness ==
    /\ lpc = "done"
    /\ seen # {}
    /\ Len(table) = 3
    /\ PlaceOf(book_data[1]) = <<1, 1>>
    /\ PlaceOf(book_data[2]) = <<1, 3>>
    /\ PlaceOf(book_data[3]) = <<2, 1>>

\* C12 as stated: no step of a run of the DAG removes or overwrites a row
\* the table holds (the rows of a prior run stay, in their places), and
\* after the commit the table holds, besides them, the rows of the run's
\* records.
C12_AppendAcrossRuns ==
    /\ [][\A n \in 1..Len(table) :
            n <= Len(table') /\ table'[n] = table[n]]_vars
    /\ [](lpc = "done" => Len(BatchRows(table)) = Len(book_data))

\* C13: a request that answers a non-200 status or raises is the last
\* request of the run: the loop is left at once, with that stop reason,
\* the page is not asked for a second time and no later page is asked for.
C13_StopOnFetchFailure ==
    \A i \in 1..Len(fetched) :
        fetched[i].kind \in {"http", "exc"}
            => /\ i = Len(fetched)
               /\ pc \in {"post", "done"}
               /\ stop = (IF fetched[i].kind = "http" THEN "http"
                          ELSE "exception")
               /\ \A j \in 1..Len(fetched) :
                    j # i => fetched[j].page < fetched[i].page

C13_Witness ==
    /\ pc = "done"
    /\ max_pages = 3
    /\ Len(fetched) = 2
    /\ fetched[2].kind = "http"
    /\ fetched[2].page = 2
    /\ books # <<>>
    /\ Len(books) < num_books

\* The i-th request's page holds no row that can add a record: each of
\* its rows has a blank title or a title a page before it holds.
NothingNew(i) ==
    \A j \in 1..Len(fetched[i].rows) :
        LET r == fetched[i].rows[j]
        IN  \/ r = "-"
            \/ /\ r \in Titles
               /\ \E h \in 1..(i - 1) : \E g \in 1..Len(fetched[h].rows) :
                    fetched[h].rows[g] = r

\* C14: a request after the first that answers 200 with a page of no new
\* record (no row, rows of blank title, rows of titles kept before) is the
\* last request of the run: the loop is left with "empty_page", whatever
\* the count of records kept and the pages left below max_pages.
C14_StopOnEmptyPage ==
    \A i \in 2..Len(fetched) :
        (fetched[i].kind = "ok" /\ NothingNew(i))
            => /\ i = Len(fetched)
               /\ pc \in {"post", "done"}
               /\ stop = "empty_page"

C14_Witness ==
    /\ pc = "done"
    /\ stop = "empty_page"
    /\ max_pages = 3
    /\ Len(fetched) = 2
    /\ fetched[2].kind = "ok"
    /\ Len(fetched[1].rows) = 1
    /\ fetched[2].rows = <<"-", fetched[1].rows[1]>>
    /\ Len(books) = 1
    /\ num_books = 3

\* The first request answered 200 with a page of no new record.
FirstPageEmpty ==
    /\ fetched # <<>>
    /\ fetched[1].kind = "ok"
    /\ NothingNew(1)

\* C15 as stated: when the first request answers 200 with a page of no new
\* record, no second request is made.
C15_Original == FirstPageEmpty => Len(fetched) = 1

\* C15 amended: a first page of no new record does not end the loop: the
\* loop goes on to page 2 ("running", page = 2), and once it has ended,
\* page 2 was asked for if and only if max_pages >= 2; with max_pages = 1
\* it ends by the page limit.
C15_Amended ==
    FirstPageEmpty
        => /\ (pc = "loop" /\ Len(fetched) = 1)
                => stop = "running" /\ page = 2
           /\ pc \in {"post", "done"}
                => /\ Len(fetched) >= 2 <=> max_pages >= 2
                   /\ Len(fetched) = 1 => stop = "page_limit"
                   /\ Len(fetched) >= 2 => fetched[2].page = 2

C15_Witness ==
    /\ pc = "done"
    /\ max_pages = 3
    /\ FirstPageEmpty
    /\ fetched[1].rows = <<"-">>
    /\ Len(fetched) = 3
    /\ Len(book_data) = 2
    /\ seen # {}

\* Some record of recs is a fallback record.
HasMock(recs) ==
    \E n \in 1..Len(recs) : \E k \in 1..Len(Mock) :
        recs[n].title = Mock[k].title

\* C16: in the step that follows the loop, whatever the stop reason, the
\* final set holds a fallback record if and only if no record was
\* collected; it is then the fallback set cut to num_books and the
\* substitution is logged, and otherwise it holds the collected records
\* and no fallback record.
C16_FallbackIffEmpty ==
    [][(pc = "post" /\ pc' = "done")
        => /\ HasMock(book_data') <=> books = <<>>
           /\ books = <<>>
                => /\ book_data' = SubSeq(Mock, 1, Min(num_books, Len(Mock)))
                   /\ log'[Len(log) + 1].text = "WARN using mock fallback data"
           /\ books # <<>>
                => /\ TitlesOf(book_data') = TitlesOf(books)
                   /\ \A n \in (Len(log) + 1)..Len(log') :
                        log'[n].text # "WARN using mock fallback data"]_vars

C16_Witness ==
    /\ pc = "done"
    /\ stop = "exception"
    /\ Len(fetched) = 2
    /\ fetched[2].kind = "exc"
    /\ seen = {}
    /\ HasMock(book_data)
    /\ Len(book_data) = 2

\* The stop reasons a line of the log names.  The line printed after the
\* scan of a page holds the page number, the count of rows kept from the
\* page and the count of records so far, but neither num_books nor
\* max_pages, and names none.
Names(line) ==
    CASE line.text = "WARN http status, stopping" -> {"http"}
      [] line.text = "ERROR exception during scraping" -> {"exception"}
      [] line.text = "INFO no new rows, stopping early" -> {"empty_page"}
      [] OTHER -> {}

\* C17 as stated: once the loop has ended, whatever the stop reason
\* (target, page limit, empty page, failed request or exception), the log
\* holds a line that names it, and a final set of fallback records comes
\* with the line that tells of the substitution.
C17_StopReasonLogged ==
    /\ pc \in {"post", "done"} => \E n \in 1..Len(log) : stop \in Names(log[n])
    /\ (pc = "done" /\ HasMock(book_data))
        => \E n \in 1..Len(log) : log[n].text = "WARN using mock fallback data"

\* The first maximal run of characters of cs in s, which holds one: the
\* places it starts and ends at.
FirstRun(s, cs) ==
    LET i == CHOOSE a \in 1..Len(s) :
                 s[a] \in cs /\ \A b \in 1..(a - 1) : s[b] \notin cs
        j == CHOOSE a \in i..Len(s) :
                 /\ \A b \in i..a : s[b] \in cs
                 /\ a = Len(s) \/ s[a + 1] \notin cs
    IN  [from |-> i, to |-> j]

\* The number the digits of s[i..j] spell, whatever stands between them.
RECURSIVE Spelled(_, _, _)
Spelled(s, i, j) ==
    IF i > j THEN 0
    ELSE IF s[j] \in Digits THEN 10 * Spelled(s, i, j - 1) + DigitVal(s[j])
    ELSE Spelled(s, i, j - 1)

\* s holds a character of cs.
Holds(s, cs) == s # None /\ \E a \in 1..Len(s) : s[a] \in cs

\* The first decimal number of s, which holds a digit: its first run of
\* digits and, if a point and a digit follow it, the digits after the
\* point; as the whole number n of n / 10^e.
FirstDecimal(s) ==
    LET ip   == FirstRun(s, Digits)
        frac == /\ ip.to + 2 <= Len(s)
                /\ s[ip.to + 1] = "."
                /\ s[ip.to + 2] \in Digits
        fp   == FirstRun(SubSeq(s, ip.to + 2, Len(s)), Digits)
    IN  IF frac
        THEN [n |-> Spelled(s, ip.from, ip.to) * 10 ^ fp.to
                    + Spelled(s, ip.to + 2, ip.to + 1 + fp.to),
              e |-> fp.to]
        ELSE [n |-> Spelled(s, ip.from, ip.to), e |-> 0]

\* C18 as stated: _to_int returns None for None, for the empty text and
\* for a text without digit or comma, and otherwise the integer that the
\* first maximal run of digits and commas spells once its commas are
\* taken out ("30,210 people voted" gives 30210); _to_float returns None
\* for None and for a text without digit, and otherwise the float of the
\* first decimal number of the text ("4.28 avg rating - 9,117,773
\* ratings" gives 4.28).
C18_NumericExtraction ==
    /\ ppc = "to_int"
        => ret.num =
            (IF Holds(arg.s, Digits \cup {","})
             THEN LET r == FirstRun(arg.s, Digits \cup {","})
                  IN  IntNum(Spelled(arg.s, r.from, r.to))
             ELSE NoneNum)
    /\ ppc = "to_float"
        => IF Holds(arg.s, Digits)
           THEN /\ ret.num.k = "float"
                /\ ret.num.n * 10 ^ FirstDecimal(arg.s).e
                     = FirstDecimal(arg.s).n * 10 ^ ret.num.e
           ELSE ret.num = NoneNum

\* C19: as long as the function is in or just past its loop, seen is the
\* set of the titles of books, the titles of books are pairwise distinct
\* and not empty, and books holds at most num_books records (the scan of
\* a page stops at the record that reaches the target); and no step takes
\* a title out of seen or a record out of books: books grows at its end.
C19_LoopInvariant ==
    /\ [](pc \in {"loop", "post"}
            => /\ seen = {books[n].title : n \in 1..Len(books)}
               /\ \A n, m \in 1..Len(books) :
                    books[n].title = books[m].title => n = m
               /\ \A n \in 1..Len(books) :
                    books[n].title # None /\ books[n].title # <<>>
               /\ Len(books) <= num_books)
    /\ [][/\ seen \subseteq seen'
          /\ Len(books) <= Len(books')
          /\ SubSeq(books', 1, Len(books)) = books]_vars

C19_Witness ==
    /\ pc = "post"
    /\ stop = "target"
    /\ num_books = 2
    /\ Len(fetched) = 1
    /\ Len(fetched[1].rows) = 4
    /\ fetched[1].rows[1] \in Titles
    /\ fetched[1].rows[2] = fetched[1].rows[1]
    /\ fetched[1].rows[3] \in Titles \ {fetched[1].rows[1]}
    /\ fetched[1].rows[4] \in Titles \ {fetched[1].rows[1], fetched[1].rows[3]}
    /\ Len(books) = 2
    /\ Cardinality(seen) = 2

\* The places of the rows the crawl read: the delivered rows that no row
\* making _parse_row raise precedes, or is, on their page.
ReadPlaces ==
    {x \in Delivered : \A g \in 1..x[2] : fetched[x[1]].rows[g] # "!"}

\* C20: when the loop ends by a failed request or an exception after a
\* record was kept, the function goes on to its end and pushes a set
\* without fallback record and without fallback warning: one record for
\* each title that a row read before the failure carries, that of the
\* first such row, in the order of those rows, which is the order of the
\* records collected.
C20_PartialResultKept ==
    (stop \in {"http", "exception"} /\ seen # {})
        => /\ pc \in {"post", "done"}
           /\ pc = "done"
                => LET read  == ReadPlaces
                       rows  == [t \in Titles |->
                                    {x \in read : fetched[x[1]].rows[x[2]] = t}]
                       place == [n \in 1..Len(book_data) |->
                                    PlaceOf(book_data[n])]
                   IN  /\ pushed
                       /\ ~HasMock(book_data)
                       /\ \A n \in 1..Len(log) :
                            log[n].text # "WARN using mock fallback data"
                       /\ TitlesOf(book_data) = TitlesOf(books)
                       /\ {book_data[n].title : n \in 1..Len(book_data)}
                            = {<<t>> : t \in {u \in Titles : rows[u] # {}}}
                       /\ \A n \in 1..Len(book_data) : \E t \in Titles :
                            /\ book_data[n].title = <<t>>
                            /\ place[n] = FirstOf(rows[t])
                       /\ \A n, m \in 1..Len(book_data) :
                            n < m <=> Before(place[n], place[m])

C20_Witness ==
    /\ pc = "done"
    /\ stop = "exception"
    /\ Len(fetched) = 2
    /\ fetched[2].kind = "ok"
    /\ Len(fetched[2].rows) = 3
    /\ fetched[2].rows[2] = "!"
    /\ seen # {}
    /\ Len(book_data) = 2
    /\ PlaceOf(book_data[1]) = <<1, 1>>
    /\ PlaceOf(book_data[2]) = <<2, 1>>

=============================================================================
